---------------------------- MODULE Spec2Model ----------------------------
(***************************************************************************)
(* SafeConfig: the invariant engine (checkInvariants and its four rules), *)
(* the drift differencer (diffConfigs), the parser (parseConfigToIR), the  *)
(* HTTP handlers and the command line, as state machines whose initial     *)
(* states draw the inputs from bounded sets and whose actions apply the    *)
(* operation.                                                              *)
(*                                                                         *)
(* JavaScript values are represented as follows.  An optional value (an    *)
(* optional field, or a result of type T | null) is a sequence of length   *)
(* at most one: <<>> when it is undefined/null, <<x>> when it is x.  An     *)
(* array is a sequence.  A Map is a function on the keys set so far; a Set *)
(* is the sequence of its elements in insertion order.                     *)
(***************************************************************************)
EXTENDS Integers, Sequences, FiniteSets, TLC

VARIABLES
    pc,             \* "start", then "checked" (checkInvariants returned)
                    \* or "diffed" (diffConfigs returned)
    ir,             \* the ConfigIR handed to checkInvariants
    violations,     \* the array checkInvariants returned
    oldIr,          \* the old and the new ConfigIR handed to diffConfigs
    newIr,
    oldViolations,  \* the old and the new violation list handed to diffConfigs
    newViolations,
    diff,           \* the DiffResult diffConfigs returned
    requests,       \* the HTTP requests the server received
    responses,      \* the response to each, <<>> while it is not handled
    rulesArray,     \* the module-level RULES array of the server process
    argv,           \* the arguments of a run of the command line
    file,           \* the content of the file at its <config-file>, if any
    exit            \* how the run ended, <<>> while it runs

engineVars ==
    <<pc, ir, violations, oldIr, newIr, oldViolations, newViolations, diff>>
apiVars == <<requests, responses, rulesArray>>
cliVars == <<argv, file, exit>>
vars == <<engineVars, apiVars, cliVars>>

----------------------------------------------------------------------------
(* Bounds of the model *)

\* longest services array of an IR
MaxServices == 2
\* longest network array of a service
MaxBindings == 2
\* most services of the two IRs handed to diffConfigs, taken together
MaxDiffServices == 3
\* most violations of the two lists handed to diffConfigs, taken together
MaxViolations == 3
\* most requests in flight at once
MaxRequests == 2

----------------------------------------------------------------------------
(* Optional values *)

Undefined == <<>>
Some(x) == <<x>>

----------------------------------------------------------------------------
(* The IR model (ir.ts) *)

ServiceType == {"api", "db", "queue", "cache"}
Protocol == {"http", "https", "tcp"}

Hosts == {"0.0.0.0", "10.0.0.5"}
Ports == {80}
ServiceNames == {"user-db", "api-gw"}
CpuValues == {0, 1}
MemoryValues == {512}

NetworkBinding == [host : Hosts, port : Ports, protocol : Protocol]

ResourceLimits ==
    [cpu : {Undefined} \cup {Some(c) : c \in CpuValues},
     memoryMb : {Undefined} \cup {Some(m) : m \in MemoryValues}]

OptResourceLimits == {Undefined} \cup {Some(l) : l \in ResourceLimits}

Networks == UNION {[1..k -> NetworkBinding] : k \in 0..MaxBindings}

Service ==
    [name : ServiceNames, type : ServiceType, public : BOOLEAN,
     handlesPII : BOOLEAN, network : Networks, dependsOn : {<<>>},
     resourceLimits : OptResourceLimits]

\* the services the IRs of several services are built from: each has one http
\* binding on 0.0.0.0 and no limits or both
CoreNetworks == {<<[host |-> "0.0.0.0", port |-> 80, protocol |-> "http"]>>}
CoreLimits == {Undefined, Some([cpu |-> Some(1), memoryMb |-> Some(512)])}
CoreService ==
    [name : ServiceNames, type : {"db", "api"}, public : BOOLEAN,
     handlesPII : BOOLEAN, network : CoreNetworks, dependsOn : {<<>>},
     resourceLimits : CoreLimits]

Metadata == [sourceFormat |-> "yaml", rawHash |-> Some("000000000000")]

ConfigIR(services) == [services |-> services, metadata |-> Some(Metadata)]

EmptyIR == ConfigIR(<<>>)

----------------------------------------------------------------------------
(* The invariant engine (invariants.ts) *)

Null == <<>>

\* R1: DB must not be public/open to 0.0.0.0
ruleNoPublicDatabases(service) ==
    IF service.type # "db" THEN Null
    ELSE LET hasPublicBinding ==
                 \E i \in 1..Len(service.network) :
                     service.network[i].host = "0.0.0.0" \/ service.public
         IN  IF ~hasPublicBinding THEN Null
             ELSE Some([id |-> "R1_NO_PUBLIC_DB",
                        description |-> "Database service is exposed publicly (host=0.0.0.0 or marked public). Databases should not be directly reachable from the internet.",
                        serviceName |-> service.name,
                        severity |-> "high"])

\* rulePublicServicesRequireTLS without the hasHttp test
R2WithoutHttpCheck(service) ==
    IF ~service.public THEN Null
    ELSE IF \E i \in 1..Len(service.network) : service.network[i].protocol = "https"
         THEN Null
         ELSE Some([id |-> "R2_PUBLIC_REQUIRES_TLS",
                    description |-> "Publicly exposed service listens on HTTP without any HTTPS endpoint. Public services must have TLS enabled.",
                    serviceName |-> service.name,
                    severity |-> "high"])

\* R2: public services must have HTTPS
rulePublicServicesRequireTLS(service) ==
    IF ~service.public THEN Null
    ELSE LET hasHttps == \E i \in 1..Len(service.network) :
                             service.network[i].protocol = "https"
             hasHttp == \E i \in 1..Len(service.network) :
                            service.network[i].protocol = "http"
         IN  IF hasHttps THEN Null
             ELSE IF ~hasHttp THEN Null
             ELSE Some([id |-> "R2_PUBLIC_REQUIRES_TLS",
                        description |-> "Publicly exposed service listens on HTTP without any HTTPS endpoint. Public services must have TLS enabled.",
                        serviceName |-> service.name,
                        severity |-> "high"])

\* ruleNoPIIPublicExposure without the public test
R3WithoutPublicCheck(service) ==
    IF ~service.handlesPII THEN Null
    ELSE Some([id |-> "R3_NO_PII_PUBLIC",
               description |-> "Service that handles PII is marked as public. PII-handling services should not be directly exposed to the internet.",
               serviceName |-> service.name,
               severity |-> "high"])

\* R3: services handling PII must not be marked public
ruleNoPIIPublicExposure(service) ==
    IF ~service.handlesPII THEN Null
    ELSE IF ~service.public THEN Null
    ELSE Some([id |-> "R3_NO_PII_PUBLIC",
               description |-> "Service that handles PII is marked as public. PII-handling services should not be directly exposed to the internet.",
               serviceName |-> service.name,
               severity |-> "high"])

\* JavaScript truthiness of an optional number: undefined and 0 are falsy
Truthy(optNumber) == optNumber # Undefined /\ optNumber[1] # 0

\* ruleResourceLimitsDefined testing limits.cpu && limits.memoryMb
R4WithTruthyLimits(service) ==
    LET limits == service.resourceLimits
    IN  IF limits # Undefined /\ Truthy(limits[1].cpu) /\ Truthy(limits[1].memoryMb)
        THEN Null
        ELSE Some([id |-> "R4_RESOURCE_LIMITS",
                   description |-> "Service is missing CPU or memory limits. Resource limits are required for predictable capacity and to prevent noisy-neighbour issues.",
                   serviceName |-> service.name,
                   severity |-> "medium"])

\* R4: every service must have resource limits defined
ruleResourceLimitsDefined(service) ==
    LET limits == service.resourceLimits
    IN  IF limits # Undefined /\ limits[1].cpu # Undefined
                              /\ limits[1].memoryMb # Undefined
        THEN Null
        ELSE Some([id |-> "R4_RESOURCE_LIMITS",
                   description |-> "Service is missing CPU or memory limits. Resource limits are required for predictable capacity and to prevent noisy-neighbour issues.",
                   serviceName |-> service.name,
                   severity |-> "medium"])

\* the rule list, each rule by its function's name
RULES == <<"ruleNoPublicDatabases", "rulePublicServicesRequireTLS",
           "ruleNoPIIPublicExposure", "ruleResourceLimitsDefined">>

\* rule(svc), for the element `rule` of a rule list
callRule(rule, svc) ==
    CASE rule = "ruleNoPublicDatabases" -> ruleNoPublicDatabases(svc)
      [] rule = "rulePublicServicesRequireTLS" -> rulePublicServicesRequireTLS(svc)
      [] rule = "ruleNoPIIPublicExposure" -> ruleNoPIIPublicExposure(svc)
      [] rule = "ruleResourceLimitsDefined" -> ruleResourceLimitsDefined(svc)

\* the inner loop leaving at the first rule that fires
RECURSIVE forEachRuleBreaking(_, _, _)
forEachRuleBreaking(rules, svc, acc) ==
    IF rules = <<>> THEN acc
    ELSE LET v == callRule(Head(rules), svc)
         IN  IF v # Null THEN Append(acc, v[1])
             ELSE forEachRuleBreaking(Tail(rules), svc, acc)

\* the inner loop: for (const rule of rules) { v = rule(svc); if (v) push }
RECURSIVE forEachRule(_, _, _)
forEachRule(rules, svc, acc) ==
    IF rules = <<>> THEN acc
    ELSE LET v == callRule(Head(rules), svc)
         IN  forEachRule(Tail(rules), svc,
                         IF v # Null THEN Append(acc, v[1]) ELSE acc)

\* the outer loop: for (const svc of ir.services) { inner loop }
RECURSIVE forEachService(_, _, _)
forEachService(services, rules, acc) ==
    IF services = <<>> THEN acc
    ELSE forEachService(Tail(services), rules,
                        forEachRule(rules, Head(services), acc))

\* checkInvariants with the rule list as a parameter
evaluate(rules, config) == forEachService(config.services, rules, <<>>)

\* the two loops exchanged: every service under R1, then under R2, ...
RECURSIVE ruleMajorLoop(_, _, _)
ruleMajorLoop(rules, services, acc) ==
    IF rules = <<>> THEN acc
    ELSE ruleMajorLoop(Tail(rules), services,
             acc \o forEachService(services, <<Head(rules)>>, <<>>))

checkInvariantsRuleMajor(config) == ruleMajorLoop(RULES, config.services, <<>>)

checkInvariants(config) == evaluate(RULES, config)

----------------------------------------------------------------------------
(* The drift differencer (diff.ts) *)

\* Map.get(key): undefined when the key was never set
mapGet(map, key) == IF key \in DOMAIN map THEN Some(map[key]) ELSE Undefined

\* Map.set(key, value)
mapSet(map, key, value) ==
    [k \in DOMAIN map \cup {key} |-> IF k = key THEN value ELSE map[k]]

\* a ?? b
orElse(opt, default) == IF opt = Undefined THEN default ELSE opt[1]

\* the names kept in an array: a name is listed as often as it occurs
newSetKeepingDuplicates(items, acc) == acc \o items

\* new Set(items): the distinct items, each at the place of its first occurrence
RECURSIVE newSet(_, _)
newSet(items, acc) ==
    IF items = <<>> THEN acc
    ELSE newSet(Tail(items),
                IF \E i \in 1..Len(acc) : acc[i] = Head(items) THEN acc
                ELSE Append(acc, Head(items)))

\* array.join(separator) of an array of strings
RECURSIVE join(_, _)
join(strings, separator) ==
    IF strings = <<>> THEN ""
    ELSE IF Len(strings) = 1 THEN strings[1]
    ELSE strings[1] \o separator \o join(Tail(strings), separator)

\* the loop setting [v] for the name, dropping what was indexed before
RECURSIVE indexLoopOverwriting(_, _)
indexLoopOverwriting(vs, map) ==
    IF vs = <<>> THEN map
    ELSE indexLoopOverwriting(Tail(vs),
                              mapSet(map, Head(vs).serviceName, <<Head(vs)>>))

RECURSIVE indexLoop(_, _)
indexLoop(vs, map) ==
    IF vs = <<>> THEN map
    ELSE LET v == Head(vs)
             arr == orElse(mapGet(map, v.serviceName), <<>>)
         IN  indexLoop(Tail(vs), mapSet(map, v.serviceName, Append(arr, v)))

indexByService(vs) == indexLoop(vs, <<>>)

\* the chain with a first test of newCount > 0 alone
countBranchesFirstTestsNewOnly(oldCount, newCount) ==
    IF newCount > 0 THEN
        [addNew |-> newCount, addResolved |-> 0,
         message |-> ToString(newCount) \o " new violation(s) introduced."]
    ELSE
        [addNew |-> 0, addResolved |-> oldCount,
         message |-> ToString(oldCount) \o " violation(s) resolved."]

\* the chain adding the counts, not their difference, when both are positive
countBranchesAddingCounts(oldCount, newCount) ==
    IF oldCount = 0 /\ newCount > 0 THEN
        [addNew |-> newCount, addResolved |-> 0,
         message |-> ToString(newCount) \o " new violation(s) introduced."]
    ELSE IF oldCount > 0 /\ newCount = 0 THEN
        [addNew |-> 0, addResolved |-> oldCount,
         message |-> ToString(oldCount) \o " violation(s) resolved."]
    ELSE IF newCount # oldCount THEN
        IF newCount > oldCount THEN
            [addNew |-> newCount, addResolved |-> 0,
             message |-> "Violations increased from " \o ToString(oldCount)
                             \o " to " \o ToString(newCount) \o "."]
        ELSE
            [addNew |-> 0, addResolved |-> oldCount,
             message |-> "Violations decreased from " \o ToString(oldCount)
                             \o " to " \o ToString(newCount) \o "."]
    ELSE
        [addNew |-> 0, addResolved |-> 0,
         message |-> "Violations count unchanged (" \o ToString(newCount) \o ")."]

\* the if/else chain on the counts: what it adds to totalNewViolations and to
\* totalResolvedViolations, and the message it pushes
countBranches(oldCount, newCount) ==
    IF oldCount = 0 /\ newCount > 0 THEN
        [addNew |-> newCount, addResolved |-> 0,
         message |-> ToString(newCount) \o " new violation(s) introduced."]
    ELSE IF oldCount > 0 /\ newCount = 0 THEN
        [addNew |-> 0, addResolved |-> oldCount,
         message |-> ToString(oldCount) \o " violation(s) resolved."]
    ELSE IF newCount # oldCount THEN
        IF newCount > oldCount THEN
            [addNew |-> newCount - oldCount, addResolved |-> 0,
             message |-> "Violations increased from " \o ToString(oldCount)
                             \o " to " \o ToString(newCount) \o "."]
        ELSE
            [addNew |-> 0, addResolved |-> oldCount - newCount,
             message |-> "Violations decreased from " \o ToString(oldCount)
                             \o " to " \o ToString(newCount) \o "."]
    ELSE
        [addNew |-> 0, addResolved |-> 0,
         message |-> "Violations count unchanged (" \o ToString(newCount) \o ")."]

\* the message listing the ids alone
currentViolationsWithoutSeverity(newVs) ==
    "Current violations: " \o join([i \in 1..Len(newVs) |-> newVs[i].id], ", ")

\* the message listing the current violations
currentViolations(newVs) ==
    "Current violations: " \o
        join([i \in 1..Len(newVs) |->
                  newVs[i].id \o " (" \o newVs[i].severity \o ")"], ", ")

\* riskImpact comparing the high-severity violations first
riskImpactBySeverity(oldVs, newVs) ==
    LET high(vs) == Cardinality({i \in 1..Len(vs) : vs[i].severity = "high"})
    IN  IF high(newVs) > high(oldVs) THEN "risk_increase"
        ELSE IF high(newVs) < high(oldVs) THEN "risk_decrease"
        ELSE IF Len(newVs) > Len(oldVs) THEN "risk_increase"
        ELSE IF Len(newVs) < Len(oldVs) THEN "risk_decrease"
        ELSE "neutral"

\* let riskImpact = 'neutral'; if (newCount > oldCount) ...; else if ...
riskImpactOf(oldVs, newVs) ==
    LET oldCount == Len(oldVs)
        newCount == Len(newVs)
    IN  IF newCount > oldCount THEN "risk_increase"
        ELSE IF newCount < oldCount THEN "risk_decrease"
        ELSE "neutral"

\* the loop skipping every name without a new violation
RECURSIVE forEachNameSkippingResolved(_, _, _, _)
forEachNameSkippingResolved(names, oldIndex, newIndex, acc) ==
    IF names = <<>> THEN acc
    ELSE LET name == Head(names)
             oldVs == orElse(mapGet(oldIndex, name), <<>>)
             newVs == orElse(mapGet(newIndex, name), <<>>)
             branch == countBranches(Len(oldVs), Len(newVs))
         IN  IF Len(newVs) = 0
             THEN forEachNameSkippingResolved(Tail(names), oldIndex, newIndex, acc)
             ELSE forEachNameSkippingResolved(Tail(names), oldIndex, newIndex,
                      [totalNewViolations |->
                           acc.totalNewViolations + branch.addNew,
                       totalResolvedViolations |->
                           acc.totalResolvedViolations + branch.addResolved,
                       changes |->
                           Append(acc.changes,
                                  [serviceName |-> name,
                                   messages |-> <<branch.message,
                                                  currentViolations(newVs)>>,
                                   riskImpact |-> riskImpactOf(oldVs, newVs)])])

\* the loop over allServiceNames; acc holds the two totals and changes
RECURSIVE forEachName(_, _, _, _)
forEachName(names, oldIndex, newIndex, acc) ==
    IF names = <<>> THEN acc
    ELSE LET name == Head(names)
             oldVs == orElse(mapGet(oldIndex, name), <<>>)
             newVs == orElse(mapGet(newIndex, name), <<>>)
             oldCount == Len(oldVs)
             newCount == Len(newVs)
             branch == countBranches(oldCount, newCount)
             messages == <<branch.message>> \o
                             (IF Len(newVs) > 0 THEN <<currentViolations(newVs)>>
                              ELSE <<>>)
         IN  IF oldCount = 0 /\ newCount = 0
             THEN forEachName(Tail(names), oldIndex, newIndex, acc)
             ELSE forEachName(Tail(names), oldIndex, newIndex,
                      [totalNewViolations |->
                           acc.totalNewViolations + branch.addNew,
                       totalResolvedViolations |->
                           acc.totalResolvedViolations + branch.addResolved,
                       changes |->
                           Append(acc.changes,
                                  [serviceName |-> name,
                                   messages |-> messages,
                                   riskImpact |-> riskImpactOf(oldVs, newVs)])])

diffConfigs(oldIR, newIR, oldList, newList) ==
    LET oldIndex == indexByService(oldList)
        newIndex == indexByService(newList)
        allServiceNames ==
            newSet([i \in 1..Len(oldIR.services) |-> oldIR.services[i].name]
                       \o [i \in 1..Len(newIR.services) |-> newIR.services[i].name],
                   <<>>)
        result == forEachName(allServiceNames, oldIndex, newIndex,
                              [totalNewViolations |-> 0,
                               totalResolvedViolations |-> 0,
                               changes |-> <<>>])
    IN  [summary |-> [totalNewViolations |-> result.totalNewViolations,
                      totalResolvedViolations |-> result.totalResolvedViolations],
         changes |-> result.changes]

----------------------------------------------------------------------------
(* Raw configuration texts and what the libraries make of them *)

\* the raw texts of the model
TextJsonDb ==
    "{\"services\":[{\"name\":\"user-db\",\"type\":\"db\",\"public\":true,\"network\":[{\"host\":\"0.0.0.0\",\"port\":80,\"protocol\":\"http\"}]}]}"
TextYamlDb ==
    "services: [{name: user-db, type: db, public: true, network: [{host: 0.0.0.0, port: 80, protocol: http}]}]"
TextEmpty ==
    "{\"services\":[]}"
TextClean ==
    "{\"services\":[{\"name\":\"api-gw\",\"type\":\"api\",\"resourceLimits\":{\"cpu\":1,\"memoryMb\":512}}]}"
TextUnterminated ==
    "services: \"user-db"
TextSchema ==
    "{\"services\":[{\"name\":\"api-gw\",\"network\":[{\"host\":\"10.0.0.5\",\"port\":-1,\"protocol\":\"udp\"}]}]}"
TextBlank ==
    ""

RawTexts ==
    {TextJsonDb, TextYamlDb, TextEmpty, TextClean,
     TextUnterminated, TextSchema, TextBlank}

\* crypto.createHash('sha256').update(text).digest('hex')
sha256Hex(text) ==
    CASE text = TextJsonDb ->
             "bb420fe1edbabdd2f07a7fb29876911c8c4e8da80c98848dce1ece5a65667290"
      [] text = TextYamlDb ->
             "3fe863ad379bf031b31c7f12a83170780b3e599b01d9bd2e30bf2ab9bd169a11"
      [] text = TextEmpty ->
             "cb4f1ff5576b203a6563c2cabfce3283391758135eb0d8885d69075303c39c4e"
      [] text = TextClean ->
             "9fe459e41c5ae51ec5ff2db8897edef9b7926d0cdc9f0f0d7531b60f757f6d52"
      [] text = TextUnterminated ->
             "4e72e0369088a583e8204434eb7eaf70074fe57727287b789cc7cc95741cbbeb"
      [] text = TextSchema ->
             "70a3eae36100df5362f20eedfa1ab76a5339b5ae0d64aa516f4a5980fc24de56"
      [] text = TextBlank ->
             "e3b0c44298fc1c149afbf4c8996fb92427ae41e4649b934ca495991b7852b855"

\* the generic tree a deserializer returns: a node has a kind k and, but for
\* undefined, a value v (an object's v is a record of nodes, an array's a
\* sequence of nodes)
Undef == [k |-> "undefined"]
Str(s) == [k |-> "string", v |-> s]
Num(n) == [k |-> "number", v |-> n]
Bool(b) == [k |-> "boolean", v |-> b]
Arr(items) == [k |-> "array", v |-> items]
Obj(fields) == [k |-> "object", v |-> fields]

\* node[key], undefined for a missing key
field(node, key) == IF key \in DOMAIN node.v THEN node.v[key] ELSE Undef

DbTree ==
    Obj([services |-> Arr(<<
        Obj([name |-> Str("user-db"), type |-> Str("db"), public |-> Bool(TRUE),
             network |-> Arr(<<Obj([host |-> Str("0.0.0.0"), port |-> Num(80),
                                    protocol |-> Str("http")])>>)])>>)])

CleanTree ==
    Obj([services |-> Arr(<<
        Obj([name |-> Str("api-gw"), type |-> Str("api"),
             resourceLimits |-> Obj([cpu |-> Num(1), memoryMb |-> Num(512)])])>>)])

SchemaTree ==
    Obj([services |-> Arr(<<
        Obj([name |-> Str("api-gw"),
             network |-> Arr(<<Obj([host |-> Str("10.0.0.5"), port |-> Num(-1),
                                    protocol |-> Str("udp")])>>)])>>)])

Returned(node) == [threw |-> FALSE, value |-> node, message |-> ""]
Thrown(message) == [threw |-> TRUE, value |-> Undef, message |-> message]

\* YAML.load(text) of js-yaml; of a thrown exception's message, its reason
yamlLoad(text) ==
    CASE text = TextJsonDb -> Returned(DbTree)
      [] text = TextYamlDb -> Returned(DbTree)
      [] text = TextEmpty -> Returned(Obj([services |-> Arr(<<>>)]))
      [] text = TextClean -> Returned(CleanTree)
      [] text = TextUnterminated ->
             Thrown("unexpected end of the stream within a double quoted scalar")
      [] text = TextSchema -> Returned(SchemaTree)
      [] text = TextBlank -> Returned(Undef)

\* JSON.parse(text)
jsonParse(text) ==
    CASE text = TextJsonDb -> Returned(DbTree)
      [] text = TextYamlDb -> Thrown("Unexpected token s in JSON at position 0")
      [] text = TextEmpty -> Returned(Obj([services |-> Arr(<<>>)]))
      [] text = TextClean -> Returned(CleanTree)
      [] text = TextUnterminated ->
             Thrown("Unexpected token s in JSON at position 0")
      [] text = TextSchema -> Returned(SchemaTree)
      [] text = TextBlank -> Thrown("Unexpected end of JSON input")

----------------------------------------------------------------------------
(* The parser and validator (parser.ts) *)

ParseFormat == {"yaml", "json"}

\* format.toUpperCase()
toUpperCase(format) ==
    CASE format = "yaml" -> "YAML"
      [] format = "json" -> "JSON"
      [] format = "xml" -> "XML"

Issue(path, message) == <<[path |-> path, message |-> message]>>

\* 'a' | 'b' | 'c', as zod lists the values of an enum
RECURSIVE quoted(_)
quoted(values) ==
    IF values = <<>> THEN <<>>
    ELSE <<"'" \o Head(values) \o "'">> \o quoted(Tail(values))

\* z.string()
zString(node, path) ==
    IF node.k = "undefined" THEN Issue(path, "Required")
    ELSE IF node.k # "string"
         THEN Issue(path, "Expected string, received " \o node.k)
         ELSE <<>>

\* z.enum(values)
zEnum(node, path, values) ==
    IF node.k = "undefined" THEN Issue(path, "Required")
    ELSE IF node.k # "string"
         THEN Issue(path, "Expected " \o join(quoted(values), " | ")
                              \o ", received " \o node.k)
    ELSE IF \A i \in 1..Len(values) : values[i] # node.v
         THEN Issue(path, "Invalid enum value. Expected "
                              \o join(quoted(values), " | ")
                              \o ", received '" \o node.v \o "'")
         ELSE <<>>

\* z.boolean().default(false)
zBooleanDefault(node, path) ==
    IF node.k = "undefined" \/ node.k = "boolean" THEN <<>>
    ELSE Issue(path, "Expected boolean, received " \o node.k)

\* z.number().optional()
zNumberOptional(node, path) ==
    IF node.k = "undefined" \/ node.k = "number" THEN <<>>
    ELSE Issue(path, "Expected number, received " \o node.k)

\* z.number().int().nonnegative(), over the integers
zPort(node, path) ==
    IF node.k = "undefined" THEN Issue(path, "Required")
    ELSE IF node.k # "number"
         THEN Issue(path, "Expected number, received " \o node.k)
    ELSE IF node.v < 0
         THEN Issue(path, "Number must be greater than or equal to 0")
         ELSE <<>>

networkBindingSchema(node, path) ==
    IF node.k = "undefined" THEN Issue(path, "Required")
    ELSE IF node.k # "object"
         THEN Issue(path, "Expected object, received " \o node.k)
         ELSE zString(field(node, "host"), Append(path, "host"))
                  \o zPort(field(node, "port"), Append(path, "port"))
                  \o zEnum(field(node, "protocol"), Append(path, "protocol"),
                           <<"http", "https", "tcp">>)

\* z.array(networkBindingSchema), from element i on
RECURSIVE networkItems(_, _, _)
networkItems(items, path, i) ==
    IF i > Len(items) THEN <<>>
    ELSE networkBindingSchema(items[i], Append(path, ToString(i - 1)))
             \o networkItems(items, path, i + 1)

\* z.array(networkBindingSchema).default([])
networkSchema(node, path) ==
    IF node.k = "undefined" THEN <<>>
    ELSE IF node.k # "array"
         THEN Issue(path, "Expected array, received " \o node.k)
         ELSE networkItems(node.v, path, 1)

\* z.array(z.string()), from element i on
RECURSIVE stringItems(_, _, _)
stringItems(items, path, i) ==
    IF i > Len(items) THEN <<>>
    ELSE zString(items[i], Append(path, ToString(i - 1)))
             \o stringItems(items, path, i + 1)

\* z.array(z.string()).default([])
dependsOnSchema(node, path) ==
    IF node.k = "undefined" THEN <<>>
    ELSE IF node.k # "array"
         THEN Issue(path, "Expected array, received " \o node.k)
         ELSE stringItems(node.v, path, 1)

resourceLimitsSchema(node, path) ==
    IF node.k = "undefined" THEN <<>>
    ELSE IF node.k # "object"
         THEN Issue(path, "Expected object, received " \o node.k)
         ELSE zNumberOptional(field(node, "cpu"), Append(path, "cpu"))
                  \o zNumberOptional(field(node, "memoryMb"),
                                     Append(path, "memoryMb"))

serviceSchema(node, path) ==
    IF node.k = "undefined" THEN Issue(path, "Required")
    ELSE IF node.k # "object"
         THEN Issue(path, "Expected object, received " \o node.k)
         ELSE zString(field(node, "name"), Append(path, "name"))
                  \o zEnum(field(node, "type"), Append(path, "type"),
                           <<"api", "db", "queue", "cache">>)
                  \o zBooleanDefault(field(node, "public"), Append(path, "public"))
                  \o zBooleanDefault(field(node, "handlesPII"),
                                     Append(path, "handlesPII"))
                  \o networkSchema(field(node, "network"), Append(path, "network"))
                  \o dependsOnSchema(field(node, "dependsOn"),
                                     Append(path, "dependsOn"))
                  \o resourceLimitsSchema(field(node, "resourceLimits"),
                                          Append(path, "resourceLimits"))

\* z.array(serviceSchema), from element i on
RECURSIVE serviceItems(_, _, _)
serviceItems(items, path, i) ==
    IF i > Len(items) THEN <<>>
    ELSE serviceSchema(items[i], Append(path, ToString(i - 1)))
             \o serviceItems(items, path, i + 1)

\* configSchema.safeParse(parsed).error.issues, empty on success
configSchema(node) ==
    IF node.k = "undefined" THEN Issue(<<>>, "Required")
    ELSE IF node.k # "object"
         THEN Issue(<<>>, "Expected object, received " \o node.k)
    ELSE LET services == field(node, "services")
         IN  IF services.k = "undefined" THEN Issue(<<"services">>, "Required")
             ELSE IF services.k # "array"
                  THEN Issue(<<"services">>,
                             "Expected array, received " \o services.k)
                  ELSE serviceItems(services.v, <<"services">>, 1)

\* an optional number of a validated tree
optionalNumber(node) == IF node.k = "undefined" THEN Undefined ELSE Some(node.v)

\* the Service built from a validated service of result.data
toService(s) ==
    LET network == field(s, "network")
        dependsOn == field(s, "dependsOn")
        limits == field(s, "resourceLimits")
    IN  [name |-> field(s, "name").v,
         type |-> field(s, "type").v,
         public |-> IF field(s, "public").k = "undefined" THEN FALSE
                    ELSE field(s, "public").v,
         handlesPII |-> IF field(s, "handlesPII").k = "undefined" THEN FALSE
                        ELSE field(s, "handlesPII").v,
         network |-> IF network.k = "undefined" THEN <<>>
                     ELSE [i \in 1..Len(network.v) |->
                               [host |-> field(network.v[i], "host").v,
                                port |-> field(network.v[i], "port").v,
                                protocol |-> field(network.v[i], "protocol").v]],
         dependsOn |-> IF dependsOn.k = "undefined" THEN <<>>
                       ELSE [i \in 1..Len(dependsOn.v) |-> dependsOn.v[i].v],
         resourceLimits |->
             IF limits.k = "undefined" THEN Undefined
             ELSE Some([cpu |-> optionalNumber(field(limits, "cpu")),
                        memoryMb |-> optionalNumber(field(limits, "memoryMb"))])]

\* the hash of the services, not of the text
rawHashOfServices(rawConfig, services) ==
    IF services = <<>> THEN "cb4f1ff5576b"
    ELSE IF services[1].name = "user-db" THEN "303aee2246d6"
    ELSE "356566dc7e48"

\* sha256 of rawConfig, in hex, .slice(0, 12)
rawHashOf(rawConfig, services) == SubSeq(sha256Hex(rawConfig), 1, 12)

\* the message of every issue, "<path joined by .>: <message>"
issueMessages(issues) ==
    [i \in 1..Len(issues) |->
         join(issues[i].path, ".") \o ": " \o issues[i].message]

\* parseConfigToIR keeping the IR beside the schema errors
parseConfigToIRKeepingIR(rawConfig, format) ==
    LET loaded == IF format = "yaml" THEN yamlLoad(rawConfig)
                  ELSE jsonParse(rawConfig)
        issues == configSchema(loaded.value)
    IN  IF loaded.threw
        THEN [ir |-> Undefined,
              errors |-> <<"Failed to parse " \o toUpperCase(format) \o ": "
                               \o loaded.message>>]
        ELSE [ir |-> Some([services |-> <<>>,
                           metadata |-> Some([sourceFormat |-> format,
                                              rawHash |-> Some(rawHashOf(rawConfig, <<>>))])]),
              errors |-> IF issues = <<>> THEN <<>>
                         ELSE <<"Schema validation failed: "
                                    \o join(issueMessages(issues), "; ")>>]

\* ParseResult: ir is optional, errors an array of strings
parseConfigToIR(rawConfig, format) ==
    LET loaded == IF format = "yaml" THEN yamlLoad(rawConfig)
                  ELSE jsonParse(rawConfig)
    IN  IF loaded.threw
        THEN [ir |-> Undefined,
              errors |-> <<"Failed to parse " \o toUpperCase(format) \o ": "
                               \o loaded.message>>]
        ELSE LET issues == configSchema(loaded.value)
             IN  IF issues # <<>>
                 THEN [ir |-> Undefined,
                       errors |-> <<"Schema validation failed: "
                                        \o join(issueMessages(issues), "; ")>>]
                 ELSE LET data == field(loaded.value, "services").v
                          services == [i \in 1..Len(data) |-> toService(data[i])]
                      IN  [ir |-> Some([services |-> services,
                                        metadata |->
                                            Some([sourceFormat |-> format,
                                                  rawHash |->
                                                      Some(rawHashOf(rawConfig,
                                                                     services))])]),
                           errors |-> <<>>]

----------------------------------------------------------------------------
(* The HTTP handlers (index.ts) *)

\* a format tag of a request; the handlers take any non-empty string
RequestFormats == {"yaml", "json", "xml"}

\* res.status(status).json(body)
Response(status, body) == [status |-> status, body |-> body]

\* !value, of a node
falsy(node) == node.k = "undefined" \/ (node.k = "string" /\ node.v = "")

\* POST /api/analyze consuming the rules it applies, one per request
analyzeShiftingRules(body, registry) ==
    LET parseResult ==
            IF body.k = "undefined" \/ field(body, "config").k # "string"
                   \/ falsy(field(body, "format"))
            THEN [ir |-> Undefined, errors |-> <<>>]
            ELSE parseConfigToIR(field(body, "config").v, field(body, "format").v)
    IN  IF body.k = "undefined" \/ field(body, "config").k # "string"
               \/ falsy(field(body, "format"))
        THEN [response |->
                  Response(400, [error |->
                      "config (string) and format (\"yaml\" | \"json\") are required."]),
              registry |-> registry]
        ELSE IF parseResult.ir = Undefined
        THEN [response |-> Response(400, [errors |-> parseResult.errors]),
              registry |-> registry]
        ELSE [response |->
                  Response(200, [ir |-> parseResult.ir[1],
                                 violations |-> evaluate(registry, parseResult.ir[1]),
                                 errors |-> parseResult.errors]),
              registry |-> IF registry = <<>> THEN <<>> ELSE Tail(registry)]

\* POST /api/analyze: the response, and the module-level RULES array (the
\* only value of the process that outlives a request) as the handler leaves it
analyze(body, registry) ==
    IF body.k = "undefined" \/ field(body, "config").k # "string"
           \/ falsy(field(body, "format"))
    THEN [response |->
              Response(400, [error |->
                  "config (string) and format (\"yaml\" | \"json\") are required."]),
          registry |-> registry]
    ELSE LET parseResult ==
                 parseConfigToIR(field(body, "config").v, field(body, "format").v)
         IN  IF parseResult.ir = Undefined
             THEN [response |-> Response(400, [errors |-> parseResult.errors]),
                   registry |-> registry]
             ELSE LET config == parseResult.ir[1]
                  IN  [response |->
                           Response(200, [ir |-> config,
                                          violations |-> evaluate(registry, config),
                                          errors |-> parseResult.errors]),
                       registry |-> registry]

\* POST /api/diff giving up at the first side that fails to parse
diffFirstFailureOnly(body, registry) ==
    LET oldParsed == parseConfigToIR(field(body, "oldConfig").v,
                                     field(body, "format").v)
        newParsed == parseConfigToIR(field(body, "newConfig").v,
                                     field(body, "format").v)
    IN  IF body.k = "undefined" \/ field(body, "oldConfig").k # "string"
               \/ field(body, "newConfig").k # "string"
               \/ falsy(field(body, "format"))
        THEN [response |->
                  Response(400, [error |->
                      "oldConfig, newConfig (strings) and format (\"yaml\" | \"json\") are required."]),
              registry |-> registry]
        ELSE IF oldParsed.ir = Undefined
        THEN [response |-> Response(400, [errors |-> oldParsed.errors]),
              registry |-> registry]
        ELSE IF newParsed.ir = Undefined
        THEN [response |-> Response(400, [errors |-> newParsed.errors]),
              registry |-> registry]
        ELSE LET oldList == evaluate(registry, oldParsed.ir[1])
                 newList == evaluate(registry, newParsed.ir[1])
             IN  [response |->
                      Response(200,
                          [oldIr |-> oldParsed.ir[1],
                           newIr |-> newParsed.ir[1],
                           oldViolations |-> oldList,
                           newViolations |-> newList,
                           diff |-> diffConfigs(oldParsed.ir[1], newParsed.ir[1],
                                                oldList, newList),
                           errors |-> <<>>]),
                  registry |-> registry]

\* POST /api/diff, as analyze above
diffHandler(body, registry) ==
    IF body.k = "undefined" \/ field(body, "oldConfig").k # "string"
           \/ field(body, "newConfig").k # "string"
           \/ falsy(field(body, "format"))
    THEN [response |->
              Response(400, [error |->
                  "oldConfig, newConfig (strings) and format (\"yaml\" | \"json\") are required."]),
          registry |-> registry]
    ELSE LET oldParsed == parseConfigToIR(field(body, "oldConfig").v,
                                          field(body, "format").v)
             newParsed == parseConfigToIR(field(body, "newConfig").v,
                                          field(body, "format").v)
             errors == oldParsed.errors \o newParsed.errors
         IN  IF oldParsed.ir = Undefined \/ newParsed.ir = Undefined
             THEN [response |-> Response(400, [errors |-> errors]),
                   registry |-> registry]
             ELSE LET oldList == evaluate(registry, oldParsed.ir[1])
                      newList == evaluate(registry, newParsed.ir[1])
                  IN  [response |->
                           Response(200,
                               [oldIr |-> oldParsed.ir[1],
                                newIr |-> newParsed.ir[1],
                                oldViolations |-> oldList,
                                newViolations |-> newList,
                                diff |-> diffConfigs(oldParsed.ir[1],
                                                     newParsed.ir[1],
                                                     oldList, newList),
                                errors |-> errors]),
                       registry |-> registry]

----------------------------------------------------------------------------
(* The command line (safeconfig-cli.ts) *)

\* rest.indexOf(value), from position i on; -1 when absent
RECURSIVE indexFrom(_, _, _)
indexFrom(rest, value, i) ==
    IF i > Len(rest) THEN -1
    ELSE IF rest[i] = value THEN i - 1
    ELSE indexFrom(rest, value, i + 1)

indexOf(rest, value) == indexFrom(rest, value, 1)

\* how the process ends: its exit status, the violations written to stdout
\* and the lines written to stderr
Exit(code, reported, stderr) ==
    [code |-> code, reported |-> reported, stderr |-> stderr]

\* main, run with process.argv = [node, script, command, configPath, ...rest]
\* in the working directory / where the file at configPath has the given
\* content (Undefined: no such file); a main that returns ends with status 0
main(args, content) ==
    IF args.command = Undefined \/ args.command \in {Some("--help"), Some("-h")}
    THEN Exit(0, <<>>, <<>>)
    ELSE IF args.command # Some("analyze")
    THEN Exit(1, <<>>, <<"Unknown command: " \o args.command[1]>>)
    ELSE IF args.configPath = Undefined \/ args.configPath = Some("")
    THEN Exit(1, <<>>, <<"Missing <config-file>">>)
    ELSE LET formatFlagIndex == indexOf(args.rest, "--format")
             value == IF formatFlagIndex # -1
                          /\ formatFlagIndex + 2 <= Len(args.rest)
                      THEN args.rest[formatFlagIndex + 2] ELSE ""
         IN  IF value # "" /\ value \notin {"yaml", "json"}
             THEN Exit(1, <<>>, <<"Invalid format. Use \"yaml\" or \"json\".">>)
             ELSE IF content = Undefined
             THEN Exit(1, <<>>, <<"File not found: /" \o args.configPath[1]>>)
             ELSE LET format == IF value = "" THEN "yaml" ELSE value
                      parseResult == parseConfigToIR(content[1], format)
                  IN  IF parseResult.ir = Undefined
                      THEN Exit(1, <<>>,
                                <<"Parse / schema errors:">>
                                    \o [i \in 1..Len(parseResult.errors) |->
                                            "  - " \o parseResult.errors[i]])
                      ELSE Exit(0, checkInvariants(parseResult.ir[1]), <<>>)

----------------------------------------------------------------------------
(* Specification of the invariant engine *)

NoDiff ==
    [summary |-> [totalNewViolations |-> 0, totalResolvedViolations |-> 0],
     changes |-> <<>>]

\* no request was received
ApiIdle ==
    /\ requests = <<>>
    /\ responses = <<>>
    /\ rulesArray = RULES

\* the command line is not run
CliIdle ==
    /\ argv = [command |-> Undefined, configPath |-> Undefined, rest |-> <<>>]
    /\ file = Undefined
    /\ exit = Undefined

\* neither checkInvariants nor diffConfigs is called on its own
EngineIdle ==
    /\ pc = "start"
    /\ ir = EmptyIR
    /\ violations = <<>>
    /\ oldIr = EmptyIR
    /\ newIr = EmptyIR
    /\ oldViolations = <<>>
    /\ newViolations = <<>>
    /\ diff = NoDiff

\* the IRs checkInvariants is applied to: every single service, and every
\* array of at most MaxServices core services
EngineInput(config) ==
    \/ \E s \in Service : config = ConfigIR(<<s>>)
    \/ \E k \in 0..MaxServices : \E ss \in [1..k -> CoreService] :
           config = ConfigIR(ss)

Init ==
    /\ pc = "start"
    /\ EngineInput(ir)
    /\ violations = <<>>
    /\ oldIr = EmptyIR
    /\ newIr = EmptyIR
    /\ oldViolations = <<>>
    /\ newViolations = <<>>
    /\ diff = NoDiff
    /\ ApiIdle
    /\ CliIdle

CheckInvariants ==
    /\ pc = "start"
    /\ violations' = checkInvariants(ir)
    /\ pc' = "checked"
    /\ UNCHANGED <<ir, oldIr, newIr, oldViolations, newViolations, diff>>
    /\ UNCHANGED <<apiVars, cliVars>>

Next == CheckInvariants

Spec == Init /\ [][Next]_vars

----------------------------------------------------------------------------
(* Specification of the drift differencer *)

\* a service of the given name: diffConfigs reads nothing else of a service
DiffService(name) ==
    [name |-> name, type |-> "db", public |-> TRUE, handlesPII |-> FALSE,
     network |-> <<[host |-> "0.0.0.0", port |-> 80, protocol |-> "http"]>>,
     dependsOn |-> <<>>, resourceLimits |-> Undefined]

\* the violations of the lists: those R1 (high) and R4 (medium) produce for
\* the services above
DiffViolation ==
    UNION {{ruleNoPublicDatabases(DiffService(n))[1],
            ruleResourceLimitsDefined(DiffService(n))[1]} : n \in ServiceNames}

\* the inputs of diffConfigs: two IRs and two violation lists, bounded
\* together; or one IR and one violation list, each given as both the old
\* and the new one
InitDiff ==
    /\ pc = "start"
    /\ ir = EmptyIR
    /\ violations = <<>>
    /\ diff = NoDiff
    /\ ApiIdle
    /\ CliIdle
    /\ \/ /\ \E k \in 0..MaxDiffServices : \E j \in 0..(MaxDiffServices - k) :
                /\ \E names \in [1..k -> ServiceNames] :
                       oldIr = ConfigIR([i \in 1..k |-> DiffService(names[i])])
                /\ \E names \in [1..j -> ServiceNames] :
                       newIr = ConfigIR([i \in 1..j |-> DiffService(names[i])])
          /\ \E k \in 0..MaxViolations : \E j \in 0..(MaxViolations - k) :
                /\ oldViolations \in [1..k -> DiffViolation]
                /\ newViolations \in [1..j -> DiffViolation]
       \/ /\ \E k \in 0..MaxServices : \E names \in [1..k -> ServiceNames] :
                /\ oldIr = ConfigIR([i \in 1..k |-> DiffService(names[i])])
                /\ newIr = oldIr
          /\ \E k \in 0..MaxViolations :
                /\ oldViolations \in [1..k -> DiffViolation]
                /\ newViolations = oldViolations

DiffConfigs ==
    /\ pc = "start"
    /\ diff' = diffConfigs(oldIr, newIr, oldViolations, newViolations)
    /\ pc' = "diffed"
    /\ UNCHANGED <<ir, violations, oldIr, newIr, oldViolations, newViolations>>
    /\ UNCHANGED <<apiVars, cliVars>>

NextDiff == DiffConfigs

SpecDiff == InitDiff /\ [][NextDiff]_vars


----------------------------------------------------------------------------
(* Specification of the HTTP handlers *)

AnalyzeRequest(config, format) ==
    [route |-> "analyze", body |-> Obj([config |-> config, format |-> format])]

DiffRequest(oldConfig, newConfig, format) ==
    [route |-> "diff",
     body |-> Obj([oldConfig |-> oldConfig, newConfig |-> newConfig,
                   format |-> format])]

\* the requests without a usable body
MalformedRequest ==
    {[route |-> "analyze", body |-> Undef],
     [route |-> "analyze", body |-> Obj([format |-> Str("yaml")])],
     AnalyzeRequest(Num(80), Str("json")),
     AnalyzeRequest(Str(TextEmpty), Undef),
     AnalyzeRequest(Str(TextEmpty), Str("")),
     [route |-> "diff", body |-> Undef],
     DiffRequest(Undef, Str(TextEmpty), Str("json")),
     DiffRequest(Str(TextEmpty), Num(80), Str("json")),
     DiffRequest(Str(TextEmpty), Str(TextEmpty), Undef)}

\* the requests handled one after another: every analyze request of a format
\* the parser names, and diff requests of every outcome
ServedRequest ==
    {AnalyzeRequest(Str(t), Str(f)) : t \in RawTexts, f \in ParseFormat}
        \cup {DiffRequest(Str(TextEmpty), Str(TextJsonDb), Str("json")),
              DiffRequest(Str(TextYamlDb), Str(TextClean), Str("yaml")),
              DiffRequest(Str(TextYamlDb), Str(TextJsonDb), Str("yaml")),
              DiffRequest(Str(TextSchema), Str(TextUnterminated), Str("json")),
              DiffRequest(Str(TextClean), Str(TextBlank), Str("yaml")),
              AnalyzeRequest(Num(80), Str("json"))}

\* one request of any kind, or at most MaxRequests requests in flight
RequestsInFlight(reqs) ==
    \/ \E q \in MalformedRequest : reqs = <<q>>
    \/ \E t \in RawTexts : \E f \in RequestFormats :
           reqs = <<AnalyzeRequest(Str(t), Str(f))>>
    \/ \E t \in RawTexts : \E u \in RawTexts : \E f \in RequestFormats :
           reqs = <<DiffRequest(Str(t), Str(u), Str(f))>>
    \/ \E k \in 0..MaxRequests : reqs \in [1..k -> ServedRequest]

InitApi ==
    /\ EngineIdle
    /\ CliIdle
    /\ RequestsInFlight(requests)
    /\ responses = [r \in 1..Len(requests) |-> Undefined]
    /\ rulesArray = RULES

HandleAnalyze(r) ==
    /\ requests[r].route = "analyze"
    /\ responses[r] = Undefined
    /\ LET done == analyze(requests[r].body, rulesArray)
       IN  /\ responses' = [responses EXCEPT ![r] = Some(done.response)]
           /\ rulesArray' = done.registry
    /\ UNCHANGED <<requests, engineVars, cliVars>>

HandleDiff(r) ==
    /\ requests[r].route = "diff"
    /\ responses[r] = Undefined
    /\ LET done == diffHandler(requests[r].body, rulesArray)
       IN  /\ responses' = [responses EXCEPT ![r] = Some(done.response)]
           /\ rulesArray' = done.registry
    /\ UNCHANGED <<requests, engineVars, cliVars>>

NextApi ==
    \E r \in 1..Len(requests) :
        \/ HandleAnalyze(r)
        \/ HandleDiff(r)

SpecApi == InitApi /\ [][NextApi]_vars

----------------------------------------------------------------------------
(* Specification of the command line *)

Argv(command, configPath, rest) ==
    [command |-> command, configPath |-> configPath, rest |-> rest]

Commands == {Undefined, Some("--help"), Some("-h"), Some("analyze"), Some("lint")}

ConfigPaths == {Undefined, Some("config.yaml")}

Rests ==
    {<<>>, <<"--format", "yaml">>, <<"--format", "json">>, <<"--format", "xml">>,
     <<"--format">>, <<"--quiet", "--format", "json">>}

InitCli ==
    /\ EngineIdle
    /\ ApiIdle
    /\ \E c \in Commands : \E p \in ConfigPaths : \E r \in Rests :
           argv = Argv(c, p, r)
    /\ \/ file = Undefined
       \/ \E t \in RawTexts : file = Some(t)
    /\ exit = Undefined

Main ==
    /\ exit = Undefined
    /\ exit' = Some(main(argv, file))
    /\ UNCHANGED <<argv, file, engineVars, apiVars>>

NextCli == Main

SpecCli == InitCli /\ [][NextCli]_vars

----------------------------------------------------------------------------
(* Claims about the invariant engine, checked under Spec *)

Services == ir.services

\* vs holds a violation of rule ruleId attributed to the service name
Reported(vs, ruleId, name) ==
    \E i \in 1..Len(vs) : vs[i].id = ruleId /\ vs[i].serviceName = name

HasHost(s, host) == \E i \in 1..Len(s.network) : s.network[i].host = host
HasProtocol(s, protocol) ==
    \E i \in 1..Len(s.network) : s.network[i].protocol = protocol

LimitsFullyDefined(s) ==
    /\ s.resourceLimits # Undefined
    /\ s.resourceLimits[1].cpu # Undefined
    /\ s.resourceLimits[1].memoryMb # Undefined

\* the name of service i is the name of no other service of the IR
UniqueName(i) ==
    \A j \in 1..Len(Services) : Services[j].name = Services[i].name => j = i

Scenario1Service ==
    [name |-> "user-db", type |-> "db", public |-> TRUE, handlesPII |-> FALSE,
     network |-> <<>>, dependsOn |-> <<>>,
     resourceLimits |-> Some([cpu |-> Some(1), memoryMb |-> Some(512)])]

\* C1: R1_NO_PUBLIC_DB is reported for a service name iff a service of that
\* name has type db and is public or has a binding with host 0.0.0.0; and for
\* the one-service config of scenario 1 (db, public, no bindings, both limits)
\* the result is exactly one R1_NO_PUBLIC_DB violation of severity high for
\* that service.
C1_R1NoPublicDb ==
    pc = "checked" =>
        /\ \A n \in ServiceNames :
               Reported(violations, "R1_NO_PUBLIC_DB", n) <=>
                   \E i \in 1..Len(Services) :
                       /\ Services[i].name = n
                       /\ Services[i].type = "db"
                       /\ Services[i].public \/ HasHost(Services[i], "0.0.0.0")
        /\ Services = <<Scenario1Service>> =>
               /\ Len(violations) = 1
               /\ violations[1].id = "R1_NO_PUBLIC_DB"
               /\ violations[1].serviceName = "user-db"
               /\ violations[1].severity = "high"

C3_PublicRequiresTls ==
    pc = "checked" =>
        \A i \in 1..Len(Services) :
            (Services[i].public /\ ~HasProtocol(Services[i], "https")) =>
                Reported(violations, "R2_PUBLIC_REQUIRES_TLS", Services[i].name)

\* C4: R4_RESOURCE_LIMITS is reported for a service name iff a service of that
\* name has no resourceLimits, or no cpu, or no memoryMb; it always has
\* severity medium.
C4_R4LimitsDefined ==
    pc = "checked" =>
        /\ \A n \in ServiceNames :
               Reported(violations, "R4_RESOURCE_LIMITS", n) <=>
                   \E i \in 1..Len(Services) :
                       Services[i].name = n /\ ~LimitsFullyDefined(Services[i])
        /\ \A k \in 1..Len(violations) :
               violations[k].id = "R4_RESOURCE_LIMITS" =>
                   violations[k].severity = "medium"

\* C4 witness: a service with cpu set and memoryMb undefined is reported.
C4_Witness ==
    /\ pc = "checked"
    /\ Len(Services) = 1
    /\ Services[1].resourceLimits # Undefined
    /\ Services[1].resourceLimits[1].cpu # Undefined
    /\ Services[1].resourceLimits[1].memoryMb = Undefined
    /\ \E k \in 1..Len(violations) :
           /\ violations[k].id = "R4_RESOURCE_LIMITS"
           /\ violations[k].serviceName = Services[1].name
           /\ violations[k].severity = "medium"

\* C5: R3_NO_PII_PUBLIC is reported for a service name iff a service of that
\* name handles PII and is public, whatever its type, bindings and limits; it
\* always has severity high.
C5_R3NoPiiPublic ==
    pc = "checked" =>
        /\ \A n \in ServiceNames :
               Reported(violations, "R3_NO_PII_PUBLIC", n) <=>
                   \E i \in 1..Len(Services) :
                       /\ Services[i].name = n
                       /\ Services[i].handlesPII
                       /\ Services[i].public
        /\ \A k \in 1..Len(violations) :
               violations[k].id = "R3_NO_PII_PUBLIC" =>
                   violations[k].severity = "high"

\* C5 witness: a public PII-handling cache with a tcp binding and both limits
\* is reported, and with nothing else.
C5_Witness ==
    /\ pc = "checked"
    /\ Len(Services) = 1
    /\ Services[1].handlesPII /\ Services[1].public
    /\ Services[1].type = "cache"
    /\ HasProtocol(Services[1], "tcp")
    /\ LimitsFullyDefined(Services[1])
    /\ Len(violations) = 1
    /\ violations[1].id = "R3_NO_PII_PUBLIC"
    /\ violations[1].severity = "high"

\* what the four rules return for service s, in the order of the rule list
RuleResults(s) == [k \in 1..Len(RULES) |-> callRule(RULES[k], s)]

\* how many of the first k rules fire for s
FiredUpTo(s, k) == Cardinality({j \in 1..k : RuleResults(s)[j] # Null})

\* how many violations the services before service i contribute
RECURSIVE Offset(_)
Offset(i) ==
    IF i <= 1 THEN 0
    ELSE Offset(i - 1) + FiredUpTo(Services[i - 1], Len(RULES))

RuleIds == <<"R1_NO_PUBLIC_DB", "R2_PUBLIC_REQUIRES_TLS",
             "R3_NO_PII_PUBLIC", "R4_RESOURCE_LIMITS">>

\* C6: the output is the concatenation, over the services in IR order, of the
\* violations of the rules that fire for the service, in the order R1, R2, R3,
\* R4: the violation of rule k for service i stands at the position that
\* follows the violations of the services before i and of the rules before k
\* firing for i, nothing else is in the output, every violation carries the
\* name of its service and the id of its rule, a service contributes between
\* 0 and 4 violations, and a service that triggers R2 and R4 yields both.
C6_ConcatenationInOrder ==
    pc = "checked" =>
        /\ Len(violations) = Offset(Len(Services) + 1)
        /\ \A i \in 1..Len(Services) :
               /\ FiredUpTo(Services[i], Len(RULES)) \in 0..4
               /\ \A k \in 1..Len(RULES) :
                      RuleResults(Services[i])[k] # Null =>
                          LET v == violations[Offset(i) + FiredUpTo(Services[i], k)]
                          IN  /\ v = RuleResults(Services[i])[k][1]
                              /\ v.id = RuleIds[k]
                              /\ v.serviceName = Services[i].name
               /\ ( /\ Services[i].public
                    /\ HasProtocol(Services[i], "http")
                    /\ ~HasProtocol(Services[i], "https")
                    /\ ~LimitsFullyDefined(Services[i]) ) =>
                      /\ Reported(violations, "R2_PUBLIC_REQUIRES_TLS", Services[i].name)
                      /\ Reported(violations, "R4_RESOURCE_LIMITS", Services[i].name)

\* C6 witness: scenario 2's service (api, public, one http binding on 0.0.0.0,
\* no limits) yields R2 then R4, and a second service of another name, firing
\* all four rules, yields four more after them.
C6_Witness ==
    /\ pc = "checked"
    /\ Len(Services) = 2
    /\ Services[1] =
           [name |-> "api-gw", type |-> "api", public |-> TRUE,
            handlesPII |-> FALSE,
            network |-> <<[host |-> "0.0.0.0", port |-> 80, protocol |-> "http"]>>,
            dependsOn |-> <<>>, resourceLimits |-> Undefined]
    /\ Services[2].name = "user-db"
    /\ Len(violations) = 6
    /\ [k \in 1..6 |-> violations[k].id] =
           <<"R2_PUBLIC_REQUIRES_TLS", "R4_RESOURCE_LIMITS", "R1_NO_PUBLIC_DB",
             "R2_PUBLIC_REQUIRES_TLS", "R3_NO_PII_PUBLIC", "R4_RESOURCE_LIMITS">>
    /\ [k \in 1..6 |-> violations[k].serviceName] =
           <<"api-gw", "api-gw", "user-db", "user-db", "user-db", "user-db">>

\* every ordering of the rule list
RuleOrders ==
    {[k \in 1..Len(RULES) |-> RULES[p[k]]] : p \in Permutations(1..Len(RULES))}

IdNamePairs(vs) == {<<vs[i].id, vs[i].serviceName>> : i \in 1..Len(vs)}

\* s with its type, public, handlesPII and network reset to fixed values:
\* two services that differ only in those fields have the same image
WithoutExposure(s) ==
    [s EXCEPT !.type = "api", !.public = FALSE, !.handlesPII = FALSE,
              !.network = <<>>]

\* C7: rule independence.  For a service whose name is unique in the IR,
\* whether R1_NO_PUBLIC_DB is reported is what R1 answers for the service with
\* any other resourceLimits, and whether R4_RESOURCE_LIMITS is reported is
\* what R4 answers for the service with its type, public, handlesPII and
\* network replaced; and every ordering of the rule list yields the same set
\* of (id, serviceName) violations as the output.
C7_RuleIndependence ==
    pc = "checked" =>
        /\ \A i \in 1..Len(Services) :
               UniqueName(i) =>
                   /\ \A l \in OptResourceLimits :
                          Reported(violations, "R1_NO_PUBLIC_DB", Services[i].name) <=>
                              ruleNoPublicDatabases(
                                  [Services[i] EXCEPT !.resourceLimits = l]) # Null
                   /\ Reported(violations, "R4_RESOURCE_LIMITS", Services[i].name) <=>
                          ruleResourceLimitsDefined(WithoutExposure(Services[i])) # Null
        /\ \A rules \in RuleOrders :
               IdNamePairs(evaluate(rules, ir)) = IdNamePairs(violations)

\* C7 witness: a db with a 0.0.0.0 binding, public and handling PII, with both
\* limits: R1 and R3 are reported (so the order of the rules shows in the
\* output) and R4 is not.
C7_Witness ==
    /\ pc = "checked"
    /\ Len(Services) = 1
    /\ Services[1].type = "db"
    /\ HasHost(Services[1], "0.0.0.0")
    /\ LimitsFullyDefined(Services[1])
    /\ Reported(violations, "R1_NO_PUBLIC_DB", Services[1].name)
    /\ Reported(violations, "R3_NO_PII_PUBLIC", Services[1].name)
    /\ ~Reported(violations, "R4_RESOURCE_LIMITS", Services[1].name)

----------------------------------------------------------------------------
(* Claims about the drift differencer, checked under SpecDiff *)

\* the names of the services of either IR
UnionNames ==
    {oldIr.services[i].name : i \in 1..Len(oldIr.services)}
        \cup {newIr.services[i].name : i \in 1..Len(newIr.services)}

\* how many violations of a list are attributed to the name
CountFor(vs, name) == Cardinality({i \in 1..Len(vs) : vs[i].serviceName = name})
OldCount(name) == CountFor(oldViolations, name)
NewCount(name) == CountFor(newViolations, name)

\* what a name adds to totalNewViolations and to totalResolvedViolations
NewContribution(old, new) ==
    IF old = 0 /\ new > 0 THEN new
    ELSE IF old > 0 /\ new > old THEN new - old
    ELSE 0

ResolvedContribution(old, new) ==
    IF old > 0 /\ new = 0 THEN old
    ELSE IF new > 0 /\ new < old THEN old - new
    ELSE 0

RECURSIVE SumNew(_)
SumNew(names) ==
    IF names = {} THEN 0
    ELSE LET n == CHOOSE x \in names : TRUE
         IN  NewContribution(OldCount(n), NewCount(n)) + SumNew(names \ {n})

RECURSIVE SumResolved(_)
SumResolved(names) ==
    IF names = {} THEN 0
    ELSE LET n == CHOOSE x \in names : TRUE
         IN  ResolvedContribution(OldCount(n), NewCount(n))
                 + SumResolved(names \ {n})

\* C8: the totals are the sums, over the names of the services of either IR,
\* of what each name contributes: new when old = 0 < new, new - old when
\* 0 < old < new (to totalNewViolations); old when new = 0 < old, old - new
\* when 0 < new < old (to totalResolvedViolations); nothing otherwise.  When
\* one name goes from 2 violations to 0 and no other name has any, the result
\* is totalResolvedViolations = 2 and one change, of impact risk_decrease.
C8_SummaryTotals ==
    pc = "diffed" =>
        /\ diff.summary.totalNewViolations = SumNew(UnionNames)
        /\ diff.summary.totalResolvedViolations = SumResolved(UnionNames)
        /\ \A n \in UnionNames :
               ( /\ OldCount(n) = 2 /\ NewCount(n) = 0
                 /\ \A m \in UnionNames \ {n} : OldCount(m) = 0 /\ NewCount(m) = 0 ) =>
                   /\ diff.summary.totalResolvedViolations = 2
                   /\ diff.summary.totalNewViolations = 0
                   /\ Len(diff.changes) = 1
                   /\ diff.changes[1].serviceName = n
                   /\ diff.changes[1].riskImpact = "risk_decrease"

\* C8 witness: a service goes from 1 violation to 2, which adds the
\* difference, 1, to totalNewViolations and nothing to the other total.
C8_Witness ==
    /\ pc = "diffed"
    /\ "user-db" \in UnionNames
    /\ OldCount("user-db") = 1 /\ NewCount("user-db") = 2
    /\ diff.summary.totalNewViolations = 1
    /\ diff.summary.totalResolvedViolations = 0

\* C9: the riskImpact of every change is decided by the two counts of its
\* service alone: risk_increase iff new > old, risk_decrease iff new < old,
\* neutral iff they are equal.
C9_RiskImpactByCount ==
    pc = "diffed" =>
        \A k \in 1..Len(diff.changes) :
            LET c == diff.changes[k]
                old == OldCount(c.serviceName)
                new == NewCount(c.serviceName)
            IN  /\ c.riskImpact \in {"risk_increase", "risk_decrease", "neutral"}
                /\ c.riskImpact = "risk_increase" <=> new > old
                /\ c.riskImpact = "risk_decrease" <=> new < old
                /\ c.riskImpact = "neutral" <=> new = old

\* C9 witness: a service whose one high R1 violation is replaced by one medium
\* R4 violation has a change of impact neutral.
C9_Witness ==
    /\ pc = "diffed"
    /\ Len(oldViolations) = 1 /\ Len(newViolations) = 1
    /\ oldViolations[1].serviceName = newViolations[1].serviceName
    /\ oldViolations[1].id = "R1_NO_PUBLIC_DB" /\ oldViolations[1].severity = "high"
    /\ newViolations[1].id = "R4_RESOURCE_LIMITS" /\ newViolations[1].severity = "medium"
    /\ Len(diff.changes) = 1
    /\ diff.changes[1].serviceName = newViolations[1].serviceName
    /\ diff.changes[1].riskImpact = "neutral"

\* C10: diffing an IR and a violation list against themselves gives both
\* totals 0 and only changes of impact neutral.
C10_DiffSymmetry ==
    (pc = "diffed" /\ oldIr = newIr /\ oldViolations = newViolations) =>
        /\ diff.summary.totalNewViolations = 0
        /\ diff.summary.totalResolvedViolations = 0
        /\ \A k \in 1..Len(diff.changes) : diff.changes[k].riskImpact = "neutral"

\* C10 witness: a self-diff of two services with three violations between
\* them, which has two changes.
C10_Witness ==
    /\ pc = "diffed"
    /\ oldIr = newIr /\ oldViolations = newViolations
    /\ Len(oldIr.services) = 2
    /\ Len(oldViolations) = 3
    /\ Len(diff.changes) = 2

\* the names of the changes, in the order of changes
ChangeNames == [k \in 1..Len(diff.changes) |-> diff.changes[k].serviceName]

\* C11: a name appears in changes iff it is the name of a service of either
\* IR and has a violation in either list.
C11_UnionCoverage ==
    pc = "diffed" =>
        \A n \in ServiceNames :
            (\E k \in 1..Len(ChangeNames) : ChangeNames[k] = n) <=>
                (n \in UnionNames /\ (OldCount(n) > 0 \/ NewCount(n) > 0))

\* C11 witness: of the two services of the new IR, the one whose only
\* violation is old has a change and the one without violations has none.
C11_Witness ==
    /\ pc = "diffed"
    /\ UnionNames = ServiceNames
    /\ OldCount("user-db") = 1 /\ NewCount("user-db") = 0
    /\ OldCount("api-gw") = 0 /\ NewCount("api-gw") = 0
    /\ ChangeNames = <<"user-db">>

\* the violations of newViolations attributed to the name, in their order
NewViolationsOf(name) ==
    LET ForName(v) == v.serviceName = name
    IN  SelectSeq(newViolations, ForName)

\* "<id> (<severity>)" of the first k violations of vs, comma-joined
RECURSIVE Listed(_, _)
Listed(vs, k) ==
    IF k = 0 THEN ""
    ELSE Listed(vs, k - 1) \o (IF k = 1 THEN "" ELSE ", ")
             \o vs[k].id \o " (" \o vs[k].severity \o ")"

\* the count messages
CountMessages ==
    UNION {{ToString(a) \o " new violation(s) introduced.",
            ToString(a) \o " violation(s) resolved.",
            "Violations count unchanged (" \o ToString(a) \o ")."}
               \cup {"Violations increased from " \o ToString(a) \o " to "
                         \o ToString(b) \o "." : b \in 0..Len(newViolations)}
               \cup {"Violations decreased from " \o ToString(a) \o " to "
                         \o ToString(b) \o "." : b \in 0..Len(newViolations)}
           : a \in 0..(Len(oldViolations) + Len(newViolations))}

\* C17: every change has one count message, followed by a second message iff
\* the service has a new violation; the second message lists the service's
\* new violations as "<id> (<severity>)", comma-joined, in the order of
\* newViolations.
C17_Messages ==
    pc = "diffed" =>
        \A k \in 1..Len(diff.changes) :
            LET c == diff.changes[k]
                current == NewViolationsOf(c.serviceName)
            IN  /\ Len(c.messages) = IF NewCount(c.serviceName) = 0 THEN 1 ELSE 2
                /\ c.messages[1] \in CountMessages
                /\ Len(c.messages) = 2 =>
                       c.messages[2] =
                           "Current violations: " \o Listed(current, Len(current))

\* C17 witness: the new list holds R4 for user-db, then R1 for api-gw, then R1
\* for user-db; the change of user-db lists R4 before R1 and leaves out the
\* violation of api-gw.
C17_Witness ==
    /\ pc = "diffed"
    /\ [i \in 1..Len(newViolations) |->
            <<newViolations[i].id, newViolations[i].serviceName>>] =
           << <<"R4_RESOURCE_LIMITS", "user-db">>, <<"R1_NO_PUBLIC_DB", "api-gw">>,
              <<"R1_NO_PUBLIC_DB", "user-db">> >>
    /\ \E k \in 1..Len(diff.changes) :
           /\ diff.changes[k].serviceName = "user-db"
           /\ diff.changes[k].messages =
                  <<"2 new violation(s) introduced.",
                    "Current violations: R4_RESOURCE_LIMITS (medium), R1_NO_PUBLIC_DB (high)">>

\* the names of the services of oldIr, then those of newIr
NamesInOrder ==
    [i \in 1..Len(oldIr.services) |-> oldIr.services[i].name]
        \o [i \in 1..Len(newIr.services) |-> newIr.services[i].name]

\* where the name is first found among the services of oldIr, then of newIr
FirstPosition(name) ==
    CHOOSE i \in 1..Len(NamesInOrder) :
        /\ NamesInOrder[i] = name
        /\ \A j \in 1..(i - 1) : NamesInOrder[j] # name

\* C18: no name has two changes, and the changes are ordered by the first
\* place of their names among the services of oldIr followed by those of
\* newIr.
C18_ChangesOrder ==
    pc = "diffed" =>
        \A k, l \in 1..Len(ChangeNames) :
            k < l =>
                /\ ChangeNames[k] # ChangeNames[l]
                /\ FirstPosition(ChangeNames[k]) < FirstPosition(ChangeNames[l])

\* C18 witness: user-db is in both IRs and api-gw, first in newIr, only
\* there; the changes are user-db's, then api-gw's.
C18_Witness ==
    /\ pc = "diffed"
    /\ NamesInOrder = <<"user-db", "api-gw", "user-db">>
    /\ Len(oldIr.services) = 1
    /\ ChangeNames = <<"user-db", "api-gw">>

RECURSIVE SumDelta(_)
SumDelta(names) ==
    IF names = {} THEN 0
    ELSE LET n == CHOOSE x \in names : TRUE
         IN  (NewCount(n) - OldCount(n)) + SumDelta(names \ {n})

\* the violations of vs attributed to a service of either IR
Attributed(vs) ==
    LET Known(v) == v.serviceName \in UnionNames
    IN  SelectSeq(vs, Known)

\* every violation of vs names a service of config
NamesOwnIR(vs, config) ==
    \A i \in 1..Len(vs) :
        \E j \in 1..Len(config.services) :
            config.services[j].name = vs[i].serviceName

\* C19: totalNewViolations - totalResolvedViolations is the sum, over the
\* names of the services of either IR, of new count - old count; when every
\* violation names a service of its own IR this is the difference of the
\* lengths of the two lists; and the violations of names that no IR holds
\* change nothing: the result is that of the lists without them.
C19_Conservation ==
    pc = "diffed" =>
        LET delta == diff.summary.totalNewViolations
                         - diff.summary.totalResolvedViolations
        IN  /\ delta = SumDelta(UnionNames)
            /\ (NamesOwnIR(oldViolations, oldIr) /\ NamesOwnIR(newViolations, newIr)) =>
                   delta = Len(newViolations) - Len(oldViolations)
            /\ diff = diffConfigs(oldIr, newIr, Attributed(oldViolations),
                                  Attributed(newViolations))

\* C19 witness: user-db, the only service, goes from 2 violations to 0 while
\* a new violation names api-gw, which no IR holds: the totals are 0 and 2.
C19_Witness ==
    /\ pc = "diffed"
    /\ UnionNames = {"user-db"}
    /\ OldCount("user-db") = 2 /\ NewCount("user-db") = 0
    /\ NewCount("api-gw") = 1
    /\ diff.summary.totalNewViolations = 0
    /\ diff.summary.totalResolvedViolations = 2
    /\ ChangeNames = <<"user-db">>

----------------------------------------------------------------------------
(* Claims about the parser and the HTTP handlers, checked under SpecApi *)

\* the handled requests of a route whose body passed the handler's first test
Handled(route) ==
    {r \in 1..Len(requests) :
         /\ requests[r].route = route
         /\ responses[r] # Undefined
         /\ "error" \notin DOMAIN responses[r][1].body}

\* what the deserializer of the format makes of the text
Loaded(text, format) ==
    IF format = "yaml" THEN yamlLoad(text) ELSE jsonParse(text)

\* the one error string of a text that does not parse
ExpectedError(text, format) ==
    IF Loaded(text, format).threw
    THEN "Failed to parse " \o toUpperCase(format) \o ": "
             \o Loaded(text, format).message
    ELSE "Schema validation failed: "
             \o join(issueMessages(configSchema(Loaded(text, format).value)), "; ")

\* whether the text is well-formed and passes the schema
Parses(text, format) ==
    /\ ~Loaded(text, format).threw
    /\ configSchema(Loaded(text, format).value) = <<>>

\* the schema message of TextSchema
SchemaMessage ==
    "Schema validation failed: services.0.type: Required; "
        \o "services.0.network.0.port: Number must be greater than or equal to 0; "
        \o "services.0.network.0.protocol: Invalid enum value. "
        \o "Expected 'http' | 'https' | 'tcp', received 'udp'"

\* C12: the response to an analyze request is either a success, with an ir,
\* its violations and an empty error list, exactly when the text parses; or a
\* failure with nothing but an error list of exactly one string: the syntax
\* failure naming the format when the deserializer threw (the schema is then
\* not consulted), else the one schema message listing every issue as
\* "path: message" joined by "; ".
C12_ExclusiveOutcome ==
    \A r \in Handled("analyze") :
        LET text == field(requests[r].body, "config").v
            format == field(requests[r].body, "format").v
            res == responses[r][1]
        IN  /\ Parses(text, format) =>
                /\ res.status = 200
                /\ DOMAIN res.body = {"ir", "violations", "errors"}
                /\ res.body.errors = <<>>
            /\ ~Parses(text, format) =>
                /\ res.status = 400
                /\ DOMAIN res.body = {"errors"}
                /\ res.body.errors = <<ExpectedError(text, format)>>
            /\ text = TextSchema => res.body.errors = <<SchemaMessage>>

\* an analyze request of the text with three schema issues was answered with
\* the one aggregated message, and one of a malformed text with the syntax
\* failure alone
C12_Witness ==
    /\ \E r \in Handled("analyze") :
           /\ field(requests[r].body, "config").v = TextSchema
           /\ responses[r][1].body = [errors |-> <<SchemaMessage>>]
    /\ \E r \in Handled("analyze") :
           /\ field(requests[r].body, "config").v = TextUnterminated
           /\ field(requests[r].body, "format").v = "json"
           /\ responses[r][1].body =
                  [errors |-> <<"Failed to parse JSON: Unexpected token s in JSON at position 0">>]

\* the error list of one side of a diff request
SideErrors(text, format) ==
    IF Parses(text, format) THEN <<>> ELSE <<ExpectedError(text, format)>>

\* C13: the response to a diff request carries the errors of the old text
\* followed by the errors of the new text, whichever of the two fails; when
\* a side fails the response is that error list and nothing else (no
\* violations, no diff); a diff is in the response only when both texts
\* parse, and the error list is then empty.
C13_DiffErrors ==
    \A r \in Handled("diff") :
        LET old == field(requests[r].body, "oldConfig").v
            new == field(requests[r].body, "newConfig").v
            format == field(requests[r].body, "format").v
            res == responses[r][1]
            both == Parses(old, format) /\ Parses(new, format)
        IN  /\ res.body.errors = SideErrors(old, format) \o SideErrors(new, format)
            /\ ~both => res.status = 400 /\ DOMAIN res.body = {"errors"}
            /\ both =>
                /\ res.status = 200
                /\ DOMAIN res.body = {"oldIr", "newIr", "oldViolations",
                                      "newViolations", "diff", "errors"}
                /\ res.body.errors = <<>>
            /\ "diff" \in DOMAIN res.body <=> both

\* a diff request whose two texts both fail was answered with the two
\* errors, the old side's first; and one whose old text alone parses with
\* the new side's error alone
C13_Witness ==
    /\ \E r \in Handled("diff") :
           /\ field(requests[r].body, "oldConfig").v = TextSchema
           /\ field(requests[r].body, "newConfig").v = TextUnterminated
           /\ field(requests[r].body, "format").v = "json"
           /\ responses[r][1].body =
                  [errors |-> <<SchemaMessage,
                                "Failed to parse JSON: Unexpected token s in JSON at position 0">>]
    /\ \E r \in Handled("diff") :
           /\ field(requests[r].body, "oldConfig").v = TextClean
           /\ field(requests[r].body, "newConfig").v = TextBlank
           /\ field(requests[r].body, "format").v = "yaml"
           /\ responses[r][1].body =
                  [errors |-> <<"Schema validation failed: : Required">>]


\* every successful parse of a handled request: the text, the format tag
\* and the ir of the response
Parsed ==
    {[text |-> field(requests[r].body, "config").v,
      format |-> field(requests[r].body, "format").v,
      ir |-> responses[r][1].body.ir] :
         r \in {q \in Handled("analyze") : responses[q][1].status = 200}}
    \cup
    {[text |-> field(requests[r].body, "oldConfig").v,
      format |-> field(requests[r].body, "format").v,
      ir |-> responses[r][1].body.oldIr] :
         r \in {q \in Handled("diff") : responses[q][1].status = 200}}
    \cup
    {[text |-> field(requests[r].body, "newConfig").v,
      format |-> field(requests[r].body, "format").v,
      ir |-> responses[r][1].body.newIr] :
         r \in {q \in Handled("diff") : responses[q][1].status = 200}}

HexDigits ==
    {"0", "1", "2", "3", "4", "5", "6", "7", "8", "9", "a", "b", "c", "d", "e", "f"}

rawHash(config) == config.metadata[1].rawHash[1]

\* C15: the rawHash of every successful parse is the first 12 hex characters
\* of the SHA-256 digest of the raw text; two parses of one text carry the
\* same rawHash, whatever their format tags, and two parses of different
\* texts carry different ones even when their services are the same.
C15_RawHashOfText ==
    /\ \A p \in Parsed :
           /\ Len(rawHash(p.ir)) = 12
           /\ \A i \in 1..12 : SubSeq(rawHash(p.ir), i, i) \in HexDigits
           /\ rawHash(p.ir) = SubSeq(sha256Hex(p.text), 1, 12)
           /\ p.text = TextJsonDb => rawHash(p.ir) = "bb420fe1edba"
           /\ p.text = TextYamlDb => rawHash(p.ir) = "3fe863ad379b"
    /\ \A p \in Parsed : \A q \in Parsed :
           (p.text = q.text) <=> (rawHash(p.ir) = rawHash(q.ir))

\* one text was parsed under both format tags, and a second text with the
\* same services beside it
C15_Witness ==
    \E p \in Parsed : \E q \in Parsed : \E o \in Parsed :
        /\ p.text = TextJsonDb /\ p.format = "json"
        /\ q.text = TextJsonDb /\ q.format = "yaml"
        /\ rawHash(p.ir) = "bb420fe1edba" /\ rawHash(q.ir) = "bb420fe1edba"
        /\ o.text = TextYamlDb
        /\ o.ir.services = p.ir.services
        /\ rawHash(o.ir) = "3fe863ad379b"


\* the response to a request that is the only one the process ever handles
Alone(request) ==
    IF request.route = "analyze"
    THEN analyze(request.body, RULES).response
    ELSE diffHandler(request.body, RULES).response

\* C16: in whatever order the requests in flight are handled, the response
\* to each request is the response it gets when handled alone, and the one
\* value of the process that outlives a request, the RULES array, is never
\* changed by a handler.
C16_RequestsIndependent ==
    /\ rulesArray = RULES
    /\ \A r \in 1..Len(requests) :
           responses[r] # Undefined => responses[r][1] = Alone(requests[r])

\* two requests were in flight, a diff and an analyze request, both were
\* handled and both found violations
C16_Witness ==
    /\ Len(requests) = 2
    /\ requests[1].route = "diff"
    /\ requests[2].route = "analyze"
    /\ responses[1] # Undefined
    /\ responses[2] # Undefined
    /\ responses[1][1].status = 200
    /\ responses[1][1].body.newViolations # <<>>
    /\ responses[2][1].status = 200
    /\ responses[2][1].body.violations # <<>>

----------------------------------------------------------------------------
(* Claims about the command line, checked under SpecCli *)

\* C14: a run of the analyze command that parsed its file and found at
\* least one violation ends with a non-zero exit status.
C14_FailsBuildOnViolations ==
    (exit # Undefined /\ argv.command = Some("analyze"))
        => (exit[1].reported # <<>> => exit[1].code # 0)

=============================================================================
